---- MODULE Spec2Model ----
(***************************************************************************)
(* Lywsd03Client (src/lywd03mmc/lywd03mmc.py): the synchronous client of   *)
(* a LYWSD03MMC sensor over a GATT transport (bleak).  The state is the    *)
(* client object's fields, the position of the one caller inside connect() *)
(* or history(), and the device and transport the client talks to.         *)
(*                                                                         *)
(* Python values are modelled as follows.  An optional value (None, False  *)
(* or an empty tuple when unset) is a sequence of length 0 when unset and  *)
(* of length 1 (2 for the stored-entries tuple) when set.  A datetime is a *)
(* record [s, us]: whole seconds of naive local time and microseconds.     *)
(* An exception leaving a public call is recorded in result.status under   *)
(* the exception's name.                                                   *)
(***************************************************************************)
EXTENDS Integers, Sequences, FiniteSets

(* ------------------------------ bounds -------------------------------- *)

\* The sleeps of one harvest are counted modulo MaxPolls + 1.
MaxPolls == 2

(* ------------------------ program constants --------------------------- *)

\* TimeRange.DAY / WEEK / MONTH
DAY == 24
WEEK == 27 * 7
MONTH == 31 * 24
TimeRange == {DAY, WEEK, MONTH}

\* connection_retry=5, the default of Lywsd03Client.__init__
ConnectionRetry == 5

\* timedelta(hours=1) in seconds, and the units of a datetime
HourSecs == 3600
MinuteSecs == 60
SecondMicros == 1000000

\* The host's time zone as the time module reports it: time.daylight,
\* time.timezone, time.altzone (seconds west of UTC).
\* UNITS_BYTES, the bytes as numbers
UNITS_BYTES == [u \in { "C", "F" } |-> IF u = "C" THEN 0 ELSE 1]
\* 2.1 V, in mV: the voltage of an empty battery
BatteryFloor == 2100
HostDaylight == TRUE
HostTimezone == -3600
HostAltzone == -7200
\* The offset datetime.fromtimestamp / datetime.timestamp apply between
\* epoch seconds and naive local time (seconds east of UTC).
LocalUtcOffset == 0 - HostAltzone

(* ------------------------------ inputs -------------------------------- *)

\* datetime.now() at construction: on an exact hour, and inside an hour.
HostNows == { [s |-> 3600000, us |-> 0], [s |-> 3601805, us |-> 250000] }
\* The device's clock (epoch seconds) and its 5th payload byte, if any.
DevEpochs == { 3590000 }
DevTzs == { <<1>> }
\* The two uint32 of the total-record-count attribute.
DevTotals == { 0, 200, 744 }
\* The totals of the devices whose whole stream is followed record by record.
StreamTotals == { 24, 200 }
DevUnsynced == { 0, 50 }
\* Arguments of the time and tz_offset setters.
SetTimes == { [s |-> 3609000, us |-> 500000] }
TzOffsets == { -5 }
\* Outcomes of a transport call.
Outcomes == { "ok", "throw" }
\* The (max_temp, max_hum, min_temp, min_hum) fields of a history payload.
PayloadValues == { [max_temp |-> 215, max_hum |-> 50, min_temp |-> -5, min_hum |-> 40],
                   [max_temp |-> 230, max_hum |-> 55, min_temp |-> 198, min_hum |-> 55] }

\* Values assigned to the units property.
UnitValues == { "C", "c", "F", "f", "K", "k", "" }
\* The voltage field (mV) of a live reading.  None is on a rounding tie
\* (a multiple of 5 that is not a multiple of 10).
SensorVoltages == { 2000, 2100, 2390, 2600, 2604, 2606, 3000, 3100, 3200 }
\* The (temperature, humidity, voltage) fields of the UUID_DATA payload.
SensorPayloads ==
    { [temperature |-> 2150, humidity |-> 45, voltage |-> mv] :
        mv \in SensorVoltages }

(* ----------------------------- datetime ------------------------------- *)

\* a <= b on datetimes
DtLeq(a, b) == a.s < b.s \/ (a.s = b.s /\ a.us <= b.us)

\* dt - timedelta(seconds=secs, microseconds=us), normalised
DtMinus(dt, secs, us) ==
    IF dt.us >= us
    THEN [s |-> dt.s - secs, us |-> dt.us - us]
    ELSE [s |-> dt.s - secs - 1, us |-> dt.us - us + SecondMicros]

\* dt.minute, dt.second, dt.microsecond
Minute(dt) == (dt.s \div MinuteSecs) % 60
Second(dt) == dt.s % MinuteSecs
Microsecond(dt) == dt.us

\* int(dt.timestamp()) and datetime.fromtimestamp(ts)
Timestamp(dt) == dt.s - LocalUtcOffset
FromTimestamp(ts) == [s |-> ts + LocalUtcOffset, us |-> 0]

\* bool(x), with a tuple of zeros taken for an unset value.
TruthyUnlessZeros(x) == x # <<>> /\ x # <<0, 0>>
\* bool(x) of an optional value
Truthy(x) == x # <<>>

(* ------------------------------ state --------------------------------- *)

VARIABLES
    \* fields of Lywsd03Client
    _connected, _device_time, _tz_offset, _stored_entries, _latest_record,
    _history_data,
    \* the caller: the public call it is in or made last, where it is in it,
    \* the locals of connect() and history_data, and the call's outcome
    call, pc, retry, end_date, result,
    \* the transport: BleakClient.is_connected, what the current or last
    \* public call asked of it, and the reads of two attributes so far
    is_connected, attempts, idx_writes, subscribes, unsubscribes,
    clock_reads, numrec_reads,
    \* the device: clock, stored records, cursor, notification stream
    dev_epoch, dev_tz, dev_total, dev_unsynced, dev_last, dev_cursor,
    subscribed, stream_pos, last_notification,
    \* the sleeps of the current harvest, counted modulo MaxPolls + 1
    polls,
    \* the last sensor reading decoded (self._data), the reading and the
    \* Units byte the device holds, and the Units bytes the last units
    \* setter call has written
    _data, dev_sensor, dev_units, units_writes

clientVars == <<_connected, _device_time, _tz_offset, _stored_entries,
                _latest_record, _history_data>>
callVars == <<call, pc, retry, end_date, result>>
logVars == <<attempts, idx_writes, subscribes, unsubscribes>>
bridgeVars == <<is_connected, logVars, clock_reads, numrec_reads>>
clockVars == <<dev_epoch, dev_tz>>
streamVars == <<subscribed, stream_pos, last_notification>>
devVars == <<clockVars, dev_total, dev_unsynced, dev_last, dev_cursor,
             streamVars>>
countVars == <<polls>>
attrVars == <<_data, dev_sensor, dev_units, units_writes>>
vars == <<clientVars, callVars, bridgeVars, devVars, countVars, attrVars>>

\* A public call: its name, its argument, and the connected flag it found.
Call(op, arg) == [op |-> op, arg |-> arg, pre_connected |-> _connected]
\* The outcome of a public call: "running", "ok", or the exception raised.
Result(status, value) == [status |-> status, value |-> value]

\* A public call starts with an empty log of transport calls.
NewLog ==
    /\ attempts' = <<>>
    /\ idx_writes' = <<>>
    /\ subscribes' = 0
    /\ unsubscribes' = 0

\* Lywsd03Client.__init__, and a device with some clock and stored records.
\* dev_last is the index of the newest record the device streams: the index
\* total-1, or total when the device has stored one more record since.
InitWith(totals) ==
    /\ _connected = FALSE
    /\ \E now \in HostNows : _device_time = <<now>>
    /\ _tz_offset = <<>>
    /\ _stored_entries = <<>>
    /\ _latest_record = <<>>
    /\ _history_data = <<>>
    /\ call = [op |-> "init", arg |-> <<>>, pre_connected |-> FALSE]
    /\ pc = "idle"
    /\ retry = 0
    /\ end_date = <<>>
    /\ result = Result("ok", <<>>)
    /\ is_connected = FALSE
    /\ attempts = <<>>
    /\ idx_writes = <<>>
    /\ subscribes = 0
    /\ unsubscribes = 0
    /\ clock_reads = 0
    /\ numrec_reads = 0
    /\ dev_epoch \in DevEpochs
    /\ dev_tz \in DevTzs
    /\ dev_total \in totals
    /\ dev_unsynced \in { u \in DevUnsynced : u <= dev_total }
    /\ dev_last \in { dev_total - 1, dev_total }
    /\ dev_cursor = 0
    /\ subscribed = FALSE
    /\ stream_pos = 0
    /\ last_notification = <<>>
    /\ polls = 0
    /\ _data = <<>>
    /\ dev_sensor = [temperature |-> 2150, humidity |-> 45, voltage |-> 3000]
    /\ dev_units = UNITS_BYTES["C"]
    /\ units_writes = <<>>

Init == InitWith(DevTotals)

(* ---------------------------- connection ------------------------------ *)

\* The loop condition of _connect, with an off-by-one in the retry bound.
ConnectLoopOffByOne(connected, n) == ~connected /\ n < ConnectionRetry
\* while not self._connected and retry <= self._connection_retry
ConnectLoop(connected, n) == ~connected /\ n <= ConnectionRetry

\* connect(): _connect() starts with retry = 1.
ConnectStart ==
    /\ pc = "idle"
    /\ call' = Call("connect", <<>>)
    /\ pc' = "connect"
    /\ retry' = 1
    /\ result' = Result("running", <<>>)
    /\ NewLog
    /\ UNCHANGED attrVars
    /\ UNCHANGED <<clientVars, end_date, is_connected, clock_reads,
                   numrec_reads, devVars, countVars>>

\* One pass of the loop body: BleakClient.connect() returns True (bleak
\* 0.21, the version setup.py requires) or raises.
\* (A client that is absent or not connected is first replaced by a fresh
\* BleakClient, which is not connected either.)
ConnectAttempt ==
    /\ pc = "connect"
    /\ ConnectLoop(_connected, retry)
    /\ \E outcome \in Outcomes :
        /\ attempts' = Append(attempts, outcome)
        /\ IF outcome = "ok"
           THEN /\ _connected' = TRUE
                /\ is_connected' = TRUE
                /\ pc' = "idle"
                /\ retry' = 0
                /\ result' = Result("ok", <<>>)
           ELSE /\ retry' = retry + 1
                /\ UNCHANGED <<_connected, is_connected, pc, result>>
    /\ UNCHANGED attrVars
    /\ UNCHANGED <<_device_time, _tz_offset, _stored_entries, _latest_record,
                   _history_data, call, end_date, idx_writes, subscribes,
                   unsubscribes, clock_reads, numrec_reads, devVars, countVars>>

\* The loop is left without a connection made: _connect() returns False
\* and connect() raises DeviceNotFound.
ConnectFail ==
    /\ pc = "connect"
    /\ ~ConnectLoop(_connected, retry)
    /\ pc' = "idle"
    /\ retry' = 0
    /\ result' = Result("DeviceNotFound", <<>>)
    /\ UNCHANGED attrVars
    /\ UNCHANGED <<clientVars, call, end_date, bridgeVars, devVars, countVars>>

\* __exit__: await self._client.disconnect(); self._connected = False.
\* When the teardown raises, the assignment is not reached and the
\* exception leaves __exit__.
Disconnect ==
    /\ pc = "idle"
    /\ call' = Call("disconnect", <<>>)
    /\ NewLog
    /\ \E outcome \in Outcomes :
        IF outcome = "ok"
        THEN /\ is_connected' = FALSE
             /\ _connected' = FALSE
             /\ result' = Result("ok", <<>>)
        ELSE /\ result' = Result("BleakError", <<>>)
             /\ UNCHANGED <<_connected, is_connected>>
    /\ UNCHANGED attrVars
    /\ UNCHANGED <<_device_time, _tz_offset, _stored_entries, _latest_record,
                   _history_data, pc, retry, end_date, clock_reads,
                   numrec_reads, devVars, countVars>>

(* ------------------------------- clock -------------------------------- *)

\* The tz_offset property: the value set, else the host's offset in hours
\* (-time.altzone // 3600 when time.daylight, else -time.timezone // 3600).
TzOffset(tz) ==
    IF tz # <<>> THEN tz[1]
    ELSE IF HostDaylight THEN (0 - HostAltzone) \div HourSecs
    ELSE (0 - HostTimezone) \div HourSecs

\* The tz_offset setter.
TzOffsetSet ==
    /\ pc = "idle"
    /\ \E o \in TzOffsets :
        /\ call' = Call("tz_offset_set", <<o>>)
        /\ _tz_offset' = <<o>>
    /\ result' = Result("ok", <<>>)
    /\ NewLog
    /\ UNCHANGED attrVars
    /\ UNCHANGED <<_connected, _device_time, _stored_entries, _latest_record,
                   _history_data, pc, retry, end_date, is_connected,
                   clock_reads, numrec_reads, devVars, countVars>>

\* The time property: `self._device_time if self._device_time else fn()`.
\* fn() reads the Clock attribute (5 bytes: epoch and offset; 4 bytes: epoch
\* only, offset 0), caches and returns the decoded time.
TimeGet ==
    /\ pc = "idle"
    /\ call' = Call("time_get", <<>>)
    /\ NewLog
    /\ IF Truthy(_device_time)
       THEN /\ result' = Result("ok", _device_time)
            /\ UNCHANGED <<_device_time, _tz_offset, clock_reads>>
       ELSE IF is_connected
       THEN /\ clock_reads' = clock_reads + 1
            /\ _tz_offset' = IF dev_tz # <<>> THEN dev_tz ELSE <<0>>
            /\ _device_time' = <<FromTimestamp(dev_epoch)>>
            /\ result' = Result("ok", <<FromTimestamp(dev_epoch)>>)
       ELSE /\ result' = Result("BleakError", <<>>)
            /\ UNCHANGED <<_device_time, _tz_offset, clock_reads>>
    /\ UNCHANGED attrVars
    /\ UNCHANGED <<_connected, _stored_entries, _latest_record, _history_data,
                   pc, retry, end_date, is_connected, numrec_reads, devVars,
                   countVars>>

\* The time setter: struct.pack('Ib', int(dt.timestamp()), self.tz_offset)
\* written to the Clock attribute.  No field of the client is assigned.
TimeSet ==
    /\ pc = "idle"
    /\ NewLog
    /\ \E dt \in SetTimes :
        /\ call' = Call("time_set", <<dt>>)
        /\ IF is_connected
           THEN /\ dev_epoch' = Timestamp(dt)
                /\ dev_tz' = <<TzOffset(_tz_offset)>>
                /\ result' = Result("ok", <<dt>>)
           ELSE /\ result' = Result("BleakError", <<>>)
                /\ UNCHANGED <<dev_epoch, dev_tz>>
    /\ UNCHANGED attrVars
    /\ UNCHANGED <<clientVars, pc, retry, end_date, is_connected, clock_reads,
                   numrec_reads, dev_total, dev_unsynced, dev_last, dev_cursor,
                   streamVars, countVars>>

(* ----------------------------- attributes ----------------------------- *)

\* str.upper() on the values assigned to units.
Upper(value) ==
    CASE value = "c" -> "C"
      [] value = "f" -> "F"
      [] value = "k" -> "K"
      [] OTHER -> value

\* The check of the units setter, without the upper().
UnitsAcceptedCaseSensitive(value) == value \in DOMAIN UNITS_BYTES
\* not (value.upper() not in self.UNITS_BYTES.keys())
UnitsAccepted(value) == Upper(value) \in DOMAIN UNITS_BYTES

\* The units setter: the value is checked, then the byte is written.
UnitsSet ==
    /\ pc = "idle"
    /\ NewLog
    /\ \E value \in UnitValues :
        /\ call' = Call("units_set", <<value>>)
        /\ IF ~UnitsAccepted(value)
           THEN /\ result' = Result("ValueError", <<>>)
                /\ units_writes' = <<>>
                /\ UNCHANGED dev_units
           ELSE IF is_connected
           THEN /\ dev_units' = UNITS_BYTES[Upper(value)]
                /\ units_writes' = <<UNITS_BYTES[Upper(value)]>>
                /\ result' = Result("ok", <<>>)
           ELSE \* write_gatt_char(UUID_UNITS) raises
                /\ result' = Result("BleakError", <<>>)
                /\ units_writes' = <<>>
                /\ UNCHANGED dev_units
    /\ UNCHANGED <<clientVars, pc, retry, end_date, is_connected, clock_reads,
                   numrec_reads, devVars, countVars, _data, dev_sensor>>

\* round(voltage - 2.1, 2) in hundredths of a volt, for a reading in mV
\* that is not on a tie: the nearest hundredth.
Hundredths(mv) == (2 * (mv - BatteryFloor) + 10) \div 20

\* The hundredths h from 0 to 110 for which the double nearest h/100,
\* multiplied by 100, is below h (0.29 * 100 is 28.999999999999996).
ProductBelow == { 29, 57, 58 }

\* int(x * 100) of the double x nearest h/100: truncation toward zero.
TimesHundred(h) == IF h \in ProductBelow THEN h - 1 ELSE h

\* min(int(round((voltage - 2.1), 2) * 100), 100)
Battery(mv) ==
    LET b == TimesHundred(Hundredths(mv))
    IN IF b < 100 THEN b ELSE 100

\* _process_sensor_data: temperature / 100 is kept as the fraction raw/100.
ProcessSensorData(data) ==
    [temperature |-> <<data.temperature, 100>>,
     humidity |-> data.humidity,
     battery |-> Battery(data.voltage)]

\* The data property: the device's current reading is read and decoded.
DataGet ==
    /\ pc = "idle"
    /\ NewLog
    /\ call' = Call("data", <<>>)
    /\ IF is_connected
       THEN /\ dev_sensor' \in SensorPayloads
            /\ _data' = <<ProcessSensorData(dev_sensor')>>
            /\ result' = Result("ok", <<>>)
       ELSE \* read_gatt_char(UUID_DATA) raises
            /\ result' = Result("BleakError", <<>>)
            /\ UNCHANGED <<_data, dev_sensor>>
    /\ UNCHANGED <<clientVars, pc, retry, end_date, is_connected, clock_reads,
                   numrec_reads, devVars, countVars, dev_units, units_writes>>

(* ------------------------------ history ------------------------------- *)

\* raw / 10 of a temperature in tenths of a degree: the fraction raw/10
DivTen(raw) == <<raw, 10>>

\* HistoryRecord(time, temp_min, temp_max, hum_min, hum_max)
HistoryRecord(ts, temp_min, temp_max, hum_min, hum_max) ==
    [time |-> ts, temp_min |-> temp_min, temp_max |-> temp_max,
     hum_min |-> hum_min, hum_max |-> hum_max]

\* History.add on a list: every record is appended.
HistoryAddAppends(records, key, record) ==
    Append(records, [key |-> key, value |-> record])
\* History.add that keeps only the records at or below the threshold of
\* the harvest (termination decided before the insertion).
HistoryAddUpToThreshold(records, key, record) ==
    IF end_date # <<>> /\ ~DtLeq(key, end_date[1])
    THEN records
    ELSE IF \E i \in 1..Len(records) : records[i].key = key
    THEN [i \in 1..Len(records) |->
            IF records[i].key = key THEN [key |-> key, value |-> record]
            ELSE records[i]]
    ELSE Append(records, [key |-> key, value |-> record])
\* History.add on the OrderedDict: a new key is appended, the value of a
\* key already present is replaced where it stands.
HistoryAdd(records, key, record) ==
    IF \E i \in 1..Len(records) : records[i].key = key
    THEN [i \in 1..Len(records) |->
            IF records[i].key = key THEN [key |-> key, value |-> record]
            ELSE records[i]]
    ELSE Append(records, [key |-> key, value |-> record])

\* The timestamp of a record, with the age of a record counted from 1.
ReconstructOneHourOlder(time, total, idx) ==
    DtMinus(time,
            (total - idx + 1) * HourSecs + Minute(time) * MinuteSecs
              + Second(time),
            Microsecond(time))
\* The timestamp of a record, without the microsecond term.
ReconstructKeepMicros(time, total, idx) ==
    DtMinus(time,
            (total - idx) * HourSecs + Minute(time) * MinuteSecs + Second(time),
            0)
\* self.time - timedelta(hours=total - idx, minutes=self.time.minute,
\*                       seconds=self.time.second,
\*                       microseconds=self.time.microsecond)
Reconstruct(time, total, idx) ==
    DtMinus(time,
            (total - idx) * HourSecs + Minute(time) * MinuteSecs + Second(time),
            Microsecond(time))

\* The loop condition of _get_history_data, leaving on equality.
KeepPollingStrict(latest, end) ==
    ~Truthy(latest) \/ (DtLeq(latest[1], end) /\ latest[1] # end)
\* while not self._latest_record or self._latest_record <= end_date
KeepPolling(latest, end) == ~Truthy(latest) \/ DtLeq(latest[1], end)

\* struct.pack('I', value) accepts an unsigned value only (a stored count
\* is below 2^32, and so is every difference that is not negative).
PacksAsUnsigned(value) == value >= 0

\* An exception raised inside the coroutine is swallowed by the wrapper.
RaisedSwallowed(exc) == Result("ok", <<>>)
\* async_to_sync: asyncio.run(runner()) re-raises what the coroutine raised.
Raised(exc) == Result(exc, <<>>)

\* history(time_range) up to the first evaluation of the loop condition:
\* the stored_entries property (cached, else read from the device), the
\* history_index setter, then start_notify and end_date in history_data.
HistoryCall ==
    /\ pc = "idle"
    /\ \E r \in TimeRange, outcome \in Outcomes :
        LET cached == Truthy(_stored_entries)
            entries == IF cached THEN _stored_entries
                       ELSE <<dev_total, dev_unsynced>>
            value == entries[1] - r
        IN
        /\ call' = Call("history", <<r>>)
        /\ attempts' = <<>>
        /\ unsubscribes' = 0
        /\ IF ~cached /\ ~is_connected
           THEN \* read_gatt_char(UUID_NUM_RECORDS) raises
                /\ result' = Result("BleakError", <<>>)
                /\ idx_writes' = <<>>
                /\ subscribes' = 0
                /\ UNCHANGED <<_stored_entries, numrec_reads, dev_cursor, pc,
                               end_date, streamVars, countVars>>
           ELSE
                /\ _stored_entries' = entries
                /\ numrec_reads' = IF cached THEN numrec_reads
                                   ELSE numrec_reads + 1
                /\ IF ~PacksAsUnsigned(value)
                   THEN \* struct.pack raises before anything is written
                        /\ result' = Result("struct.error", <<>>)
                        /\ idx_writes' = <<>>
                        /\ subscribes' = 0
                        /\ UNCHANGED <<dev_cursor, pc, end_date, streamVars,
                                       countVars>>
                   ELSE IF ~is_connected
                   THEN \* write_gatt_char(UUID_RECORD_IDX) raises
                        /\ result' = Result("BleakError", <<>>)
                        /\ idx_writes' = <<>>
                        /\ subscribes' = 0
                        /\ UNCHANGED <<dev_cursor, pc, end_date, streamVars,
                                       countVars>>
                   ELSE
                        /\ dev_cursor' = value
                        /\ idx_writes' = <<value>>
                        /\ subscribes' = 1
                        /\ IF outcome = "throw"
                           THEN \* start_notify raises
                                /\ result' = Raised("BleakError")
                                /\ UNCHANGED <<pc, end_date, streamVars,
                                               countVars>>
                           ELSE /\ subscribed' = TRUE
                                /\ stream_pos' = value
                                /\ last_notification' = <<>>
                                /\ end_date' =
                                     <<DtMinus(_device_time[1], HourSecs, 0)>>
                                /\ pc' = "polling"
                                /\ result' = Result("running", <<>>)
                                /\ polls' = 0
    /\ UNCHANGED attrVars
    /\ UNCHANGED <<_connected, _device_time, _tz_offset, _latest_record,
                   _history_data, retry, is_connected, clock_reads, clockVars,
                   dev_total, dev_unsynced, dev_last>>

\* _process_history_data on one notification.  self.time is the cached
\* _device_time (set in __init__, never cleared) and stored_entries the
\* cached tuple (history() has read it before subscribing).
ProcessHistoryData(payload) ==
    LET ts == Reconstruct(_device_time[1], _stored_entries[1], payload.idx)
    IN
    /\ Truthy(_device_time)
    /\ Truthy(_stored_entries)
    /\ _latest_record' = <<ts>>
    /\ _history_data' =
         HistoryAdd(_history_data, ts,
                    HistoryRecord(ts, DivTen(payload.min_temp),
                                  DivTen(payload.max_temp),
                                  payload.min_hum, payload.max_hum))

\* A history payload: '<IIhBhB' is idx, an unused word, max_temp, max_hum,
\* min_temp, min_hum.
Payload(idx, v) ==
    [idx |-> idx, max_temp |-> v.max_temp, max_hum |-> v.max_hum,
     min_temp |-> v.min_temp, min_hum |-> v.min_hum]

\* The record indices a freely chosen notification may carry: the two
\* newest records of the device.
NotifyIdx == { i \in { dev_last - 1, dev_last } : i >= 0 }

\* The event loop delivers a notification (any of the indices above, in
\* any order, repeated or not) while the harvester sleeps.
NotifyAny ==
    /\ pc = "polling"
    /\ subscribed
    /\ \E idx \in NotifyIdx, v \in PayloadValues :
        /\ last_notification' = <<Payload(idx, v)>>
        /\ ProcessHistoryData(Payload(idx, v))
    /\ UNCHANGED attrVars
    /\ UNCHANGED <<_connected, _device_time, _tz_offset, _stored_entries,
                   callVars, bridgeVars, clockVars, dev_total, dev_unsynced,
                   dev_last, dev_cursor, subscribed, stream_pos, polls>>

\* The device streams its records in order, from the cursor to its newest.
NotifyNext ==
    /\ pc = "polling"
    /\ subscribed
    /\ stream_pos <= dev_last
    /\ LET v == CHOOSE x \in PayloadValues : x.max_temp = 215
       IN /\ last_notification' = <<Payload(stream_pos, v)>>
          /\ ProcessHistoryData(Payload(stream_pos, v))
    /\ stream_pos' = stream_pos + 1
    /\ UNCHANGED attrVars
    /\ UNCHANGED <<_connected, _device_time, _tz_offset, _stored_entries,
                   callVars, bridgeVars, clockVars, dev_total, dev_unsynced,
                   dev_last, dev_cursor, subscribed, polls>>

\* The loop of _get_history_data, returning without stop_notify.
PollWithoutStopNotify ==
    /\ pc = "polling"
    /\ IF KeepPolling(_latest_record, end_date[1])
       THEN /\ polls' = (polls + 1) % (MaxPolls + 1)
            /\ UNCHANGED <<pc, result>>
       ELSE /\ pc' = "idle"
            /\ result' = Result("ok", <<>>)
            /\ UNCHANGED polls
    /\ UNCHANGED attrVars
    /\ UNCHANGED <<clientVars, call, retry, end_date, is_connected, attempts,
                   idx_writes, subscribes, unsubscribes, clock_reads,
                   numrec_reads, devVars>>

\* One evaluation of the loop condition of _get_history_data: sleep on, or
\* stop_notify and return the History.
Poll ==
    /\ pc = "polling"
    /\ IF KeepPolling(_latest_record, end_date[1])
       THEN /\ polls' = (polls + 1) % (MaxPolls + 1)
            /\ UNCHANGED <<pc, result, subscribed, unsubscribes>>
       ELSE /\ subscribed' = FALSE
            /\ unsubscribes' = unsubscribes + 1
            /\ pc' = "idle"
            /\ result' = Result("ok", <<>>)
            /\ UNCHANGED polls
    /\ UNCHANGED attrVars
    /\ UNCHANGED <<clientVars, call, retry, end_date, is_connected, attempts,
                   idx_writes, subscribes, clock_reads, numrec_reads,
                   clockVars, dev_total, dev_unsynced, dev_last, dev_cursor,
                   stream_pos, last_notification>>

(* --------------------------- specifications --------------------------- *)

\* Every operation, with notifications of freely chosen payloads.
Next ==
    \/ ConnectStart
    \/ ConnectAttempt
    \/ ConnectFail
    \/ Disconnect
    \/ TzOffsetSet
    \/ TimeGet
    \/ TimeSet
    \/ HistoryCall
    \/ NotifyAny
    \/ Poll

Spec == Init /\ [][Next]_vars

\* The harvest against a device that streams its records in order.
NextStream ==
    \/ ConnectStart
    \/ ConnectAttempt
    \/ ConnectFail
    \/ HistoryCall
    \/ NotifyNext
    \/ Poll

InitStream == InitWith(StreamTotals)

SpecStream == InitStream /\ [][NextStream]_vars

\* The event loop runs the harvester's poll after every sleep and delivers
\* the notifications the device has sent.
FairStream == SpecStream /\ WF_vars(Poll) /\ WF_vars(NotifyNext)

\* The connection and the attribute operations of one client.
NextAttributes ==
    \/ ConnectStart
    \/ ConnectAttempt
    \/ ConnectFail
    \/ Disconnect
    \/ UnitsSet
    \/ DataGet

SpecAttributes == Init /\ [][NextAttributes]_vars

(* ------------------------------- claims ------------------------------- *)

\* A loop-condition evaluation of the harvest: the step leaves the loop,
\* or counts one more sleep.
PollStep == pc = "polling" /\ (pc' # pc \/ polls' # polls)

ClampToZero(n) == IF n < 0 THEN 0 ELSE n

\* C3 as stated: history(r) writes max(0, total_records - r.hours) to the
\* record-index cursor and does not fail when total_records < r.hours
\* (a call the transport refuses is not covered).
C3_CursorWriteIsClamped ==
    (call.op = "history" /\ result.status # "BleakError") =>
        /\ result.status # "struct.error"
        /\ idx_writes = <<ClampToZero(_stored_entries[1] - call.arg[1])>>
        /\ dev_cursor = ClampToZero(_stored_entries[1] - call.arg[1])

\* C4 as stated: when the device reports an unsynced-record count of 0,
\* history(r) does not subscribe to the history channel and returns an
\* empty History.
C4_NoSubscriptionWhenNothingUnsynced ==
    (/\ call.op = "history"
     /\ Truthy(_stored_entries)
     /\ _stored_entries[2] = 0) =>
        /\ subscribes = 0
        /\ ~subscribed
        /\ pc = "idle"
        /\ _history_data = <<>>

\* Every transport connection attempt in the log raised.
AllThrew(log) == \A i \in 1..Len(log) : log[i] = "throw"

\* C5: from a disconnected client connect() makes at most ConnectionRetry
\* attempts, only the last of which can have succeeded; it returns success
\* exactly when an attempt succeeded, with the connected flag set, and it
\* raises DeviceNotFound exactly when ConnectionRetry attempts all threw,
\* with the flag still clear.
C5_ConnectRetriesUpToBound ==
    (call.op = "connect" /\ ~call.pre_connected) =>
        /\ Len(attempts) <= ConnectionRetry
        /\ AllThrew(SubSeq(attempts, 1, Len(attempts) - 1))
        /\ (result.status = "ok") <=>
             (attempts # <<>> /\ attempts[Len(attempts)] = "ok")
        /\ (result.status = "ok") => (_connected /\ pc = "idle")
        /\ (result.status = "DeviceNotFound") <=>
             (/\ pc = "idle"
              /\ Len(attempts) = ConnectionRetry
              /\ AllThrew(attempts))
        /\ (result.status = "DeviceNotFound") => ~_connected

\* C5 witness: the first ConnectionRetry-1 attempts threw and the last one
\* succeeded.
C5_Witness ==
    /\ call.op = "connect"
    /\ ~call.pre_connected
    /\ result.status = "ok"
    /\ Len(attempts) = ConnectionRetry
    /\ _connected

\* C6 as stated: in every client state connect() raises DeviceNotFound only
\* after ConnectionRetry attempts were made and every one of them failed.
C6_DeviceNotFoundOnlyAfterAllAttempts ==
    (call.op = "connect" /\ result.status = "DeviceNotFound") =>
        (Len(attempts) = ConnectionRetry /\ AllThrew(attempts))

\* C7 as stated: leaving the client context leaves the connected flag
\* clear, also when the transport teardown raises.
C7_DisconnectClearsFlag ==
    (call.op = "disconnect") => ~_connected

\* C8 as stated: a read of the device time on a connected client has read
\* the Clock attribute, and returns and caches the time decoded from the
\* device's payload.
C8_TimeReadIsDeviceClock ==
    (call.op = "time_get" /\ is_connected) =>
        /\ clock_reads >= 1
        /\ result.status = "ok"
        /\ result.value = <<FromTimestamp(dev_epoch)>>
        /\ _device_time = result.value

\* C9 as stated: a read of the time that follows a write of instant t
\* returns the epoch seconds that were written, and the offset the device
\* holds is the client's offset.
C9_WriteThenReadRoundTrips ==
    [][(/\ call.op = "time_set"
        /\ result.status = "ok"
        /\ call'.op = "time_get") =>
          (/\ result'.status = "ok"
           /\ Timestamp(result'.value[1]) = Timestamp(call.arg[1])
           /\ dev_epoch = Timestamp(call.arg[1])
           /\ dev_tz = <<TzOffset(_tz_offset')>>)
    ]_vars

\* C10: for a record index i in [0, total_records) the reconstructed
\* timestamp is the device time floored to the hour minus
\* (total_records - i) hours: it lies on a whole hour, it is the key and
\* the time of the record inserted, and no record of a lower index has a
\* later timestamp.
C10_TimestampIsFlooredHourMinusAge ==
    (/\ last_notification # <<>>
     /\ last_notification[1].idx < _stored_entries[1]) =>
        LET i == last_notification[1].idx
            total == _stored_entries[1]
            dt == _device_time[1]
            ts == _latest_record[1]
        IN
        /\ ts.us = 0
        /\ ts.s % HourSecs = 0
        /\ ts.s = (dt.s \div HourSecs) * HourSecs - (total - i) * HourSecs
        /\ \E k \in 1..Len(_history_data) :
             /\ _history_data[k].key = ts
             /\ _history_data[k].value.time = ts
        /\ \A j \in 0..i : DtLeq(Reconstruct(dt, total, j), ts)

\* C10 witness: the newest stored record (index total_records-1) has been
\* reconstructed on a client whose device time lies inside an hour.
C10_Witness ==
    /\ last_notification # <<>>
    /\ last_notification[1].idx = _stored_entries[1] - 1
    /\ _device_time[1].us > 0
    /\ _device_time[1].s % HourSecs > 0
    /\ Len(_history_data) > 1

\* The timestamps that are keys of a History.
Keys(records) == { records[i].key : i \in 1..Len(records) }

\* The callback has run on a notification.
NotifyStep ==
    /\ pc = "polling"
    /\ pc' = "polling"
    /\ (last_notification' # last_notification
          \/ _history_data' # _history_data)

\* The HistoryRecord the callback builds from a payload for timestamp ts.
RecordOf(ts, p) ==
    [time |-> ts, temp_min |-> <<p.min_temp, 10>>,
     temp_max |-> <<p.max_temp, 10>>, hum_min |-> p.min_hum,
     hum_max |-> p.max_hum]

\* C11: after any notification (repeated and out-of-order ones included)
\* the History holds one record per timestamp, the record under the
\* notification's timestamp is the one built from that notification, the
\* other records are untouched, the size grows by one only for a timestamp
\* not yet held, and the harvest goes on without an error.
C11_DuplicateTimestampOverwrites ==
    [][NotifyStep =>
        LET old == _history_data
            new == _history_data'
            ts == _latest_record'[1]
        IN
        /\ last_notification' # <<>>
        /\ \A i, j \in 1..Len(new) : new[i].key = new[j].key => i = j
        /\ \E k \in 1..Len(new) :
             /\ new[k].key = ts
             /\ new[k].value = RecordOf(ts, last_notification'[1])
        /\ Len(new) = IF ts \in Keys(old) THEN Len(old) ELSE Len(old) + 1
        /\ \A i \in 1..Len(old) : old[i].key # ts => new[i] = old[i]
        /\ result' = result
    ]_vars

\* C11 witness: two timestamps are held and the last notification carried
\* the one inserted first, so it repeated a timestamp and was delivered
\* after a record of another index.
C11_Witness ==
    /\ pc = "polling"
    /\ Len(_history_data) = 2
    /\ last_notification # <<>>
    /\ _history_data[1].key = _latest_record[1]
    /\ _history_data[1].value = RecordOf(_latest_record[1], last_notification[1])

\* C12: the callback inserts the record of every notification in the step
\* in which it sets latest_seen, whatever the timestamp is relative to the
\* threshold; no step removes a timestamp from the History; so the record
\* the termination condition is evaluated on, and every timestamp received
\* before, is in the History that history() returns.
C12_ReceivedRecordsAreReturned ==
    [][/\ Keys(_history_data) \subseteq Keys(_history_data')
       /\ NotifyStep =>
            (/\ Truthy(_latest_record')
             /\ _latest_record'[1] \in Keys(_history_data'))
       /\ (pc = "polling" /\ pc' = "idle") =>
            (/\ _history_data' = _history_data
             /\ _latest_record[1] \in Keys(_history_data))
    ]_vars

\* C12 witness: a harvest has returned a History that holds the record
\* above the threshold that ended it and a record at or below it.
C12_Witness ==
    /\ call.op = "history"
    /\ pc = "idle"
    /\ result.status = "ok"
    /\ last_notification # <<>>
    /\ ~DtLeq(_latest_record[1], end_date[1])
    /\ _latest_record[1] \in Keys(_history_data)
    /\ \E k \in Keys(_history_data) : DtLeq(k, end_date[1])

\* C13 as stated: the History is empty when a harvest starts, also for the
\* second and later history() calls on a client.
C13_HistoryEmptyAtStartOfHarvest ==
    (pc = "polling" /\ last_notification = <<>>) => _history_data = <<>>

\* C16: when start_notify raises, history() ends with the transport error
\* and no History is returned; the client is not subscribed.
C16_SubscriptionFailureIsRaised ==
    (/\ call.op = "history"
     /\ pc = "idle"
     /\ subscribes = 1
     /\ unsubscribes = 0) =>
        /\ result.status = "BleakError"
        /\ ~subscribed

\* C16 witness: start_notify has raised on a client that holds records of
\* an earlier harvest.
C16_Witness ==
    /\ call.op = "history"
    /\ pc = "idle"
    /\ subscribes = 1
    /\ unsubscribes = 0
    /\ result.status = "BleakError"
    /\ _history_data # <<>>

\* C17: within a history() call the transport sees at most one write of
\* the cursor, a subscribe only after that write and an unsubscribe only
\* after the subscribe; a call that returns normally has made exactly one
\* of each and leaves the client unsubscribed.
C17_WriteSubscribeUnsubscribeInOrder ==
    (call.op = "history") =>
        /\ Len(idx_writes) <= 1
        /\ subscribes <= Len(idx_writes)
        /\ unsubscribes <= subscribes
        /\ subscribed => (subscribes = 1 /\ unsubscribes = 0 /\ pc = "polling")
        /\ (pc = "polling") => subscribed
        /\ (pc = "idle" /\ result.status = "ok") =>
             (/\ Len(idx_writes) = 1
              /\ idx_writes[1] = dev_cursor
              /\ subscribes = 1
              /\ unsubscribes = 1
              /\ ~subscribed)

\* C17 witness: a history() call has returned normally with a History that
\* is not empty.
C17_Witness ==
    /\ call.op = "history"
    /\ pc = "idle"
    /\ result.status = "ok"
    /\ subscribes = 1
    /\ unsubscribes = 1
    /\ _history_data # <<>>

\* C18: the total-record-count attribute is read at most once; once a
\* value is cached (the pair 0, 0 included) no step reads it again or
\* changes the cached pair, and the one read caches what the device holds.
C18_StoredEntriesReadOnce ==
    [][/\ numrec_reads' <= 1
       /\ (_stored_entries # <<>>) =>
            (/\ numrec_reads' = numrec_reads
             /\ _stored_entries' = _stored_entries)
       /\ (numrec_reads' # numrec_reads) =>
            _stored_entries' = <<dev_total, dev_unsynced>>
    ]_vars

\* C18 witness: on a device that reports total 0 and unsynced 0 the count
\* has been read once and history() has been called from the cached pair.
C18_Witness ==
    /\ _stored_entries = <<0, 0>>
    /\ numrec_reads = 1
    /\ call.op = "history"
    /\ ~is_connected
    /\ result.status = "struct.error"

\* C19 as stated: no harvest unsubscribes and returns before a
\* notification has been received after its own subscription.
C19_NoReturnBeforeOwnNotification ==
    [][(pc = "polling" /\ pc' = "idle") => last_notification # <<>>]_vars

\* C14: a units setter call with a value that is not C or F in any case
\* raises ValueError, writes nothing to the Units attribute and leaves the
\* device's Units byte alone; a write happens only in a call with C or F
\* (in either case), carries the byte of that unit, and no other operation
\* writes the attribute.
C14_InvalidUnitsRejectedBeforeWrite ==
    [][IF call'.op = "units_set"
       THEN LET v == call'.arg[1]
                valid == v \in { "C", "c", "F", "f" }
                byte == IF v \in { "C", "c" } THEN 0 ELSE 1
            IN
            /\ ~valid => (/\ result'.status = "ValueError"
                          /\ units_writes' = <<>>
                          /\ dev_units' = dev_units)
            /\ (units_writes' # <<>>) => (valid /\ units_writes' = <<byte>>)
            /\ (dev_units' # dev_units) => units_writes' # <<>>
            /\ (valid /\ is_connected) =>
                 (/\ result'.status = "ok"
                  /\ units_writes' = <<byte>>
                  /\ dev_units' = byte)
       ELSE dev_units' = dev_units
    ]_vars

\* C14 witness: on a connected client whose device was set to F, a units
\* setter call with K has raised ValueError and written nothing.
C14_Witness ==
    /\ call.op = "units_set"
    /\ call.arg[1] \in { "K", "k" }
    /\ is_connected
    /\ result.status = "ValueError"
    /\ units_writes = <<>>
    /\ dev_units = 1

\* C15 as stated: the battery estimate of every reading decoded is
\* clamp((mV - 2100) / 10, 0, 100) with the quotient rounded to the nearest
\* integer, so it is never outside 0..100.
C15_BatteryIsClampedPercentage ==
    (call.op = "data" /\ result.status = "ok") =>
        LET q == (2 * (dev_sensor.voltage - 2100) + 10) \div 20
        IN /\ _data[1].battery = (IF q < 0 THEN 0 ELSE IF q > 100 THEN 100 ELSE q)
           /\ _data[1].battery \in 0..100

====
